---- MODULE Spec2Model ----
(***************************************************************************)
(* Model of the "parrot" character device (src/parrot.c): a kernel module  *)
(* that keeps the last written message in one isolated page, referenced    *)
(* through a signed pointer.                                               *)
(*                                                                         *)
(* Each caller of the device is a process p with a program counter pc[p]   *)
(* naming the next statement of parrot_read / parrot_write it executes.    *)
(* The xMP primitives (xmp_sign_ptr, xmp_auth_ptr, xmp_protect, ...) and   *)
(* the page allocator are the environment the module calls.                *)
(*                                                                         *)
(* Sizes are scaled down: the struct keeps its layout (message array, then *)
(* message_size, then the unused rest of the page), each with fewer cells. *)
(***************************************************************************)
EXTENDS Integers, Sequences, FiniteSets, TLC

\* ---- bounds of the model ----
NProcs == 2            \* callers of the device
NPages == 2            \* page frames the allocator can hand out
MaxLen == 3            \* longest user buffer / transfer length tried
MaxOpens == 2          \* cap on the num_opens counter

\* ---- program constants (scaled) ----
MessageLen == 1        \* char message[256]; message_size is the cell after it
PageSize == 2          \* one page (order 0) from get_zeroed_page
XMP_MAX_PDOMAINS == 2  \* size of the pdomain pool

Procs == 1..NProcs
PageIds == 1..NPages
MemSize == NPages * PageSize
Foreign == -7          \* content of memory outside the modelled page frames
Junk == -8             \* content of a frame that is not allocated: indeterminate

THIS_MODULE == "THIS_MODULE"

\* user buffers tried: for every length up to MaxLen, the two buffers whose
\* bytes alternate between the two values
Alternating(k, n) == [i \in 1..n |-> IF (k + i) % 2 = 0 THEN 1 ELSE 2]
Payloads == {Alternating(k, n) : k \in 0..1, n \in 0..MaxLen}

EFAULT == -14          \* -EFAULT

VARIABLES
    phase,           \* "unloaded" | "loaded" | "init_failed" | "exited" | "exit_oops"
    pdomains,        \* pdomain ids currently allocated (whole system); at load
                     \* time other users hold the first k ids, any k
    parrot_pdomain,  \* static uint16_t parrot_pdomain
    registered,      \* subset of {"chrdev","class","device"} held by the module
    num_opens,       \* static int num_opens
    isOpen,          \* isOpen[p]: p holds an open file on the device
    message,         \* static struct parrot_message *message (signed pointer)
    mem,             \* memory cells of the page frames, linear
    wild,            \* a store hit memory outside the modelled page frames
    allocated,       \* page frames currently allocated
    doubleFree,      \* free_pages was called on a frame that was not allocated
    writeFailed,     \* some parrot_write call did not return its len
    mode,            \* <<"Protected">> or <<"Unprotected", d>>
    pc,              \* pc[p]: next statement of p
    parrot_message,  \* local parrot_message of p
    addr,            \* local addr of p (parrot_write)
    buffer,          \* user buffer of p's write call
    len,             \* len argument of p's call
    error_count,     \* local error_count of p
    ret,             \* value returned by p's call
    out,             \* bytes p's read call put in the user buffer
    hist             \* the last completed call (forgotten when a write begins);
                     \* for parrot_exit, with the address it handed to free_pages

vars == <<phase, pdomains, parrot_pdomain, registered, num_opens, isOpen,
          message, mem, wild, allocated, doubleFree, writeFailed, mode, pc,
          parrot_message, addr, buffer, len, error_count, ret, out, hist>>

moduleVars == <<phase, pdomains, parrot_pdomain, registered>>
fileVars == <<num_opens, isOpen>>
heapVars == <<mem, wild, allocated, doubleFree>>
localVars == <<parrot_message, addr, buffer, len, error_count, ret, out>>
\* what the message store consists of
storeVars == <<message, mem, wild, allocated, mode, parrot_pdomain, pdomains>>

\* ---- pointers ----
NULL == 0
BadPtr == -100000      \* what a failed authentication hands back: no valid address
MAX_ERRNO == 4095
IS_ERR(x) == x >= -MAX_ERRNO /\ x <= -1
NoTag == <<>>
NullPtr == [ptr |-> NULL, tag |-> NoTag]

\* ---- xMP primitives ----
\* the authentication material of a signed pointer: binds the address to the
\* context and to the pdomain (whose key signs it)
Tag(h, ctx, d) == <<h, ctx, d>>

XmpSignPtr(h, ctx, d) == [ptr |-> h, tag |-> Tag(h, ctx, d)]

\* alloc: the pdomains allocated at the time of the call
XmpAuthPtr(cap, ctx, d, alloc) ==
    IF cap.tag = Tag(cap.ptr, ctx, d) /\ d \in alloc THEN cap.ptr ELSE BadPtr

\* xmp_alloc_pdomain: the first free id, XMP_MAX_PDOMAINS when there is none
FirstFree(alloc) ==
    IF \E d \in 0..(XMP_MAX_PDOMAINS - 1) : d \notin alloc
    THEN CHOOSE d \in 0..(XMP_MAX_PDOMAINS - 1) :
            d \notin alloc /\ \A e \in 0..(d - 1) : e \in alloc
    ELSE XMP_MAX_PDOMAINS

Protected == <<"Protected">>
Unprotected(d) == <<"Unprotected", d>>

\* ---- memory ----
Base(h) == (h - 1) * PageSize
IsPage(h) == h \in PageIds
FrameOf(a) == (a \div PageSize) + 1
ZeroPage(m, h) ==
    [a \in DOMAIN m |-> IF a >= Base(h) /\ a < Base(h) + PageSize THEN 0 ELSE m[a]]
\* store the first n bytes of b at address a0, a0+1, ...
StoreBytes(m, a0, b, n) ==
    [a \in DOMAIN m |-> IF a >= a0 /\ a < a0 + n THEN b[a - a0 + 1] ELSE m[a]]
\* load n cells starting at address a0
LoadBytes(m, a0, n) ==
    [i \in 1..n |-> IF a0 + i - 1 \in DOMAIN m THEN m[a0 + i - 1] ELSE Foreign]
\* the cells of a frame that is not allocated hold nothing one can rely on
Settle(m, alloc) == [a \in DOMAIN m |-> IF FrameOf(a) \in alloc THEN m[a] ELSE Junk]

\* free_pages(addr, 0): the outcomes of the call, each with the allocated set
\* after it, whether the frame was not allocated when freed, and whether the
\* kernel stops the caller (oops). Freeing a frame that is not allocated, or an
\* address that is no frame, is undefined: the kernel carries on or stops the
\* caller.
FreePages(a, alloc) ==
    IF a = NULL THEN {[alloc |-> alloc, dbl |-> FALSE, oops |-> FALSE]}
    ELSE IF a \in alloc THEN {[alloc |-> alloc \ {a}, dbl |-> FALSE, oops |-> FALSE]}
    ELSE {[alloc |-> alloc, dbl |-> IsPage(a), oops |-> o] : o \in BOOLEAN}

\* what copy_to_user / copy_from_user can return for a transfer of l bytes:
\* 0, or the bytes left uncopied when the user buffer is not mapped
Uncopied(l) == {0, l}

Init ==
    /\ phase = "unloaded"
    /\ pdomains \in {0..(k - 1) : k \in 0..XMP_MAX_PDOMAINS}
    /\ parrot_pdomain = 0
    /\ registered = {}
    /\ num_opens = 0
    /\ isOpen = [p \in Procs |-> FALSE]
    /\ message = NullPtr
    /\ mem = [a \in 0..(MemSize - 1) |-> Junk]
    /\ wild = FALSE
    /\ allocated = {}
    /\ doubleFree = FALSE
    /\ writeFailed = FALSE
    /\ mode = Protected
    /\ pc = [p \in Procs |-> "idle"]
    /\ parrot_message = [p \in Procs |-> NULL]
    /\ addr = [p \in Procs |-> NULL]
    /\ buffer = [p \in Procs |-> <<>>]
    /\ len = [p \in Procs |-> 0]
    /\ error_count = [p \in Procs |-> 0]
    /\ ret = [p \in Procs |-> 0]
    /\ out = [p \in Procs |-> <<>>]
    /\ hist = [op |-> "none"]

\* ---- module load and unload ----
InitFailures == {"none", "chrdev", "class", "device"}

\* an init that does not test what xmp_alloc_pdomain returned
parrot_initUnchecked ==
    /\ phase = "unloaded"
    /\ LET d == FirstFree(pdomains) IN
       /\ parrot_pdomain' = d
       /\ pdomains' = pdomains \cup ({d} \ {XMP_MAX_PDOMAINS})
       /\ \E fail \in InitFailures :
            /\ registered' = IF fail = "none"
                             THEN {"chrdev", "class", "device"} ELSE {}
            /\ phase' = IF fail = "none" THEN "loaded" ELSE "init_failed"
            /\ hist' = [op |-> "init", failed |-> fail,
                        ret |-> IF fail = "none" THEN 0 ELSE EFAULT]
    /\ UNCHANGED <<fileVars, message, heapVars, writeFailed, mode, pc, localVars>>

parrot_init ==
    /\ phase = "unloaded"
    /\ LET d == FirstFree(pdomains) IN
       /\ parrot_pdomain' = d
       /\ IF d = XMP_MAX_PDOMAINS
          THEN /\ phase' = "init_failed"
               /\ hist' = [op |-> "init", failed |-> "pdomain", ret |-> EFAULT]
               /\ UNCHANGED <<pdomains, registered>>
          ELSE /\ pdomains' = pdomains \cup {d}
               /\ \E fail \in InitFailures :
                    /\ registered' = IF fail = "none"
                                     THEN {"chrdev", "class", "device"} ELSE {}
                    /\ phase' = IF fail = "none" THEN "loaded" ELSE "init_failed"
                    /\ hist' = [op |-> "init", failed |-> fail,
                                ret |-> IF fail = "none" THEN 0 ELSE EFAULT]
    /\ UNCHANGED <<fileVars, message, heapVars, writeFailed, mode, pc, localVars>>

Quiescent == \A p \in Procs : pc[p] \in {"idle", "oops"}

parrot_exit ==
    /\ phase = "loaded"
    /\ Quiescent
    /\ LET a == XmpAuthPtr(message, THIS_MODULE, parrot_pdomain, pdomains) IN
       \E f \in FreePages(a, allocated) :
          /\ allocated' = f.alloc
          /\ mem' = Settle(mem, f.alloc)
          /\ doubleFree' = (doubleFree \/ f.dbl)
          /\ IF f.oops
             THEN /\ phase' = "exit_oops"
                  /\ UNCHANGED <<pdomains, registered>>
             ELSE /\ phase' = "exited"
                  /\ pdomains' = pdomains \ {parrot_pdomain}
                  /\ registered' = {}
    /\ hist' = [op |-> "exit",
                freed |-> XmpAuthPtr(message, THIS_MODULE, parrot_pdomain, pdomains)]
    /\ UNCHANGED <<parrot_pdomain, fileVars, message, wild, writeFailed, mode,
                   pc, localVars>>

\* ---- open / release ----
parrot_open(p) ==
    /\ phase = "loaded"
    /\ pc[p] = "idle"
    /\ ~isOpen[p]
    /\ num_opens < MaxOpens
    /\ num_opens' = num_opens + 1
    /\ isOpen' = [isOpen EXCEPT ![p] = TRUE]
    /\ UNCHANGED <<moduleVars, message, heapVars, writeFailed, mode, pc,
                   localVars, hist>>

parrot_release(p) ==
    /\ phase = "loaded"
    /\ pc[p] = "idle"
    /\ isOpen[p]
    /\ isOpen' = [isOpen EXCEPT ![p] = FALSE]
    /\ UNCHANGED <<moduleVars, num_opens, message, heapVars, writeFailed, mode,
                   pc, localVars, hist>>

\* ---- parrot_read ----
CallRead(p, n) ==
    /\ phase = "loaded"
    /\ pc[p] = "idle"
    /\ isOpen[p]
    /\ len' = [len EXCEPT ![p] = n]
    /\ pc' = [pc EXCEPT ![p] = "r_auth"]
    /\ UNCHANGED <<moduleVars, fileVars, message, heapVars, writeFailed, mode,
                   parrot_message, addr, buffer, error_count, ret, out, hist>>

\* line 67
ReadAuth(p) ==
    /\ pc[p] = "r_auth"
    /\ parrot_message' = [parrot_message EXCEPT
           ![p] = XmpAuthPtr(message, THIS_MODULE, parrot_pdomain, pdomains)]
    /\ pc' = [pc EXCEPT ![p] = "r_log"]
    /\ UNCHANGED <<moduleVars, fileVars, message, heapVars, writeFailed, mode,
                   addr, buffer, len, error_count, ret, out, hist>>

\* line 69: the log statement dereferences the pointer
ReadLog(p) ==
    /\ pc[p] = "r_log"
    /\ pc' = [pc EXCEPT ![p] = IF IsPage(parrot_message[p]) THEN "r_copy" ELSE "oops"]
    /\ UNCHANGED <<moduleVars, fileVars, message, heapVars, writeFailed, mode,
                   localVars, hist>>

\* the number of bytes parrot_read hands to copy_to_user
ReadCopyLen(p) == len[p]

\* a read that takes the message out of the slot
ReadCopyConsuming(p) ==
    /\ pc[p] = "r_copy"
    /\ \E n \in Uncopied(ReadCopyLen(p)) :
          /\ error_count' = [error_count EXCEPT ![p] = n]
          /\ out' = [out EXCEPT ![p] =
                 LoadBytes(mem, Base(parrot_message[p]), ReadCopyLen(p) - n)]
          /\ ret' = [ret EXCEPT ![p] = IF n = 0 THEN 0 ELSE EFAULT]
    /\ message' = NullPtr
    /\ pc' = [pc EXCEPT ![p] = "r_ret"]
    /\ UNCHANGED <<moduleVars, fileVars, heapVars, writeFailed, mode,
                   parrot_message, addr, buffer, len, hist>>

\* lines 71-79; n is the number of bytes copy_to_user could not copy
ReadCopy(p) ==
    /\ pc[p] = "r_copy"
    /\ \E n \in Uncopied(ReadCopyLen(p)) :
          /\ error_count' = [error_count EXCEPT ![p] = n]
          /\ out' = [out EXCEPT ![p] =
                 LoadBytes(mem, Base(parrot_message[p]), ReadCopyLen(p) - n)]
          /\ ret' = [ret EXCEPT ![p] = IF n = 0 THEN 0 ELSE EFAULT]
    /\ pc' = [pc EXCEPT ![p] = "r_ret"]
    /\ UNCHANGED <<moduleVars, fileVars, message, heapVars, writeFailed, mode,
                   parrot_message, addr, buffer, len, hist>>

\* ---- parrot_write ----
CallWrite(p, b) ==
    /\ phase = "loaded"
    /\ pc[p] = "idle"
    /\ isOpen[p]
    /\ buffer' = [buffer EXCEPT ![p] = b]
    /\ len' = [len EXCEPT ![p] = Len(b)]
    /\ pc' = [pc EXCEPT ![p] = "w_check"]
    /\ hist' = [op |-> "none"]
    /\ UNCHANGED <<moduleVars, fileVars, message, heapVars, writeFailed, mode,
                   parrot_message, addr, error_count, ret, out>>

\* a write that never frees the page it replaces
WriteCheckNoFree(p) ==
    /\ pc[p] = "w_check"
    /\ pc' = [pc EXCEPT ![p] = "w_alloc"]
    /\ UNCHANGED <<moduleVars, fileVars, message, heapVars, writeFailed, mode,
                   localVars, hist>>

\* line 93: if (message)
WriteCheck(p) ==
    /\ pc[p] = "w_check"
    /\ pc' = [pc EXCEPT ![p] = IF message # NullPtr THEN "w_auth" ELSE "w_alloc"]
    /\ UNCHANGED <<moduleVars, fileVars, message, heapVars, writeFailed, mode,
                   localVars, hist>>

\* line 94
WriteAuth(p) ==
    /\ pc[p] = "w_auth"
    /\ addr' = [addr EXCEPT
           ![p] = XmpAuthPtr(message, THIS_MODULE, parrot_pdomain, pdomains)]
    /\ pc' = [pc EXCEPT ![p] = "w_free"]
    /\ UNCHANGED <<moduleVars, fileVars, message, heapVars, writeFailed, mode,
                   parrot_message, buffer, len, error_count, ret, out, hist>>

\* line 95
WriteFree(p) ==
    /\ pc[p] = "w_free"
    /\ \E f \in FreePages(addr[p], allocated) :
          /\ allocated' = f.alloc
          /\ mem' = Settle(mem, f.alloc)
          /\ doubleFree' = (doubleFree \/ f.dbl)
          /\ writeFailed' = (writeFailed \/ f.oops)
          /\ pc' = [pc EXCEPT ![p] = IF f.oops THEN "oops" ELSE "w_alloc"]
    /\ UNCHANGED <<moduleVars, fileVars, message, wild, mode, localVars, hist>>

\* lines 102-106: get_zeroed_page hands out a free frame, zeroed, or 0 when
\* memory is exhausted
WriteAlloc(p) ==
    /\ pc[p] = "w_alloc"
    /\ \E h \in (PageIds \ allocated) \cup {NULL} :
          /\ parrot_message' = [parrot_message EXCEPT ![p] = h]
          /\ allocated' = IF h = NULL THEN allocated ELSE allocated \cup {h}
          /\ mem' = IF h = NULL THEN mem ELSE ZeroPage(mem, h)
          /\ IF IS_ERR(h)
             THEN /\ ret' = [ret EXCEPT ![p] = h]
                  /\ writeFailed' = TRUE
                  /\ pc' = [pc EXCEPT ![p] = "w_ret"]
             ELSE /\ UNCHANGED <<ret, writeFailed>>
                  /\ pc' = [pc EXCEPT ![p] = "w_unprotect"]
    /\ UNCHANGED <<moduleVars, fileVars, message, wild, doubleFree, mode, addr,
                   buffer, len, error_count, out, hist>>

\* line 116
WriteUnprotect(p) ==
    /\ pc[p] = "w_unprotect"
    /\ mode' = Unprotected(parrot_pdomain)
    /\ pc' = [pc EXCEPT ![p] = "w_copy"]
    /\ UNCHANGED <<moduleVars, fileVars, message, heapVars, writeFailed,
                   localVars, hist>>

\* the number of bytes parrot_write hands to copy_from_user
WriteCopyLen(p) == len[p]

\* lines 117-118; n is the number of bytes copy_from_user could not copy.
\* A store through a null pointer, or into the isolated page while its pdomain
\* is not unprotected, stops the caller.
WriteCopy(p) ==
    /\ pc[p] = "w_copy"
    /\ IF ~IsPage(parrot_message[p]) \/ mode # Unprotected(parrot_pdomain)
       THEN /\ pc' = [pc EXCEPT ![p] = "oops"]
            /\ writeFailed' = TRUE
            /\ UNCHANGED <<mem, wild, error_count>>
       ELSE \E n \in Uncopied(WriteCopyLen(p)) :
              LET a0 == Base(parrot_message[p])
                  k == WriteCopyLen(p) - n
                  m1 == StoreBytes(mem, a0, buffer[p], k)
              IN  /\ mem' = Settle([m1 EXCEPT ![a0 + MessageLen] = len[p]],
                                    allocated)
                  /\ wild' = (wild \/ a0 + k > MemSize)
                  /\ error_count' = [error_count EXCEPT ![p] = n]
                  /\ pc' = [pc EXCEPT ![p] = "w_protect"]
                  /\ UNCHANGED writeFailed
    /\ UNCHANGED <<moduleVars, fileVars, message, allocated, doubleFree, mode,
                   parrot_message, addr, buffer, len, ret, out, hist>>

\* lines 119-124
WriteProtect(p) ==
    /\ pc[p] = "w_protect"
    /\ mode' = Protected
    /\ IF error_count[p] # 0
       THEN /\ ret' = [ret EXCEPT ![p] = EFAULT]
            /\ writeFailed' = TRUE
            /\ pc' = [pc EXCEPT ![p] = "w_ret"]
       ELSE /\ UNCHANGED <<ret, writeFailed>>
            /\ pc' = [pc EXCEPT ![p] = "w_sign"]
    /\ UNCHANGED <<moduleVars, fileVars, message, heapVars, parrot_message,
                   addr, buffer, len, error_count, out, hist>>

\* a write that signs under a context other than the one the reads pass
WriteSignOtherContext(p) ==
    /\ pc[p] = "w_sign"
    /\ message' = XmpSignPtr(parrot_message[p], "other_module", parrot_pdomain)
    /\ ret' = [ret EXCEPT ![p] = len[p]]
    /\ pc' = [pc EXCEPT ![p] = "w_ret"]
    /\ UNCHANGED <<moduleVars, fileVars, heapVars, writeFailed, mode,
                   parrot_message, addr, buffer, len, error_count, out, hist>>

\* lines 131-133
WriteSign(p) ==
    /\ pc[p] = "w_sign"
    /\ message' = XmpSignPtr(parrot_message[p], THIS_MODULE, parrot_pdomain)
    /\ ret' = [ret EXCEPT ![p] = len[p]]
    /\ pc' = [pc EXCEPT ![p] = "w_ret"]
    /\ UNCHANGED <<moduleVars, fileVars, heapVars, writeFailed, mode,
                   parrot_message, addr, buffer, len, error_count, out, hist>>

\* ---- return to the caller ----
CallRecord(p) ==
    IF pc[p] = "w_ret"
    THEN [op |-> "write", ret |-> ret[p],
          buffer |-> IF ret[p] = len[p] THEN buffer[p] ELSE <<>>]
    ELSE [op |-> "read", ret |-> ret[p],
          len |-> IF ret[p] = 0 THEN len[p] ELSE 0,
          out |-> IF ret[p] = 0 THEN out[p] ELSE <<>>]

Return(p) ==
    /\ pc[p] \in {"r_ret", "w_ret"}
    /\ hist' = CallRecord(p)
    /\ pc' = [pc EXCEPT ![p] = "idle"]
    /\ parrot_message' = [parrot_message EXCEPT ![p] = NULL]
    /\ addr' = [addr EXCEPT ![p] = NULL]
    /\ buffer' = [buffer EXCEPT ![p] = <<>>]
    /\ len' = [len EXCEPT ![p] = 0]
    /\ error_count' = [error_count EXCEPT ![p] = 0]
    /\ ret' = [ret EXCEPT ![p] = 0]
    /\ out' = [out EXCEPT ![p] = <<>>]
    /\ UNCHANGED <<moduleVars, fileVars, message, heapVars, writeFailed, mode>>

\* ---- the adversary the signed pointer guards against ----
\* Between two calls, an attacker who can write kernel memory redirects the
\* stored pointer to another frame; the authentication bits stay as they were.
Tamper ==
    /\ phase = "loaded"
    /\ Quiescent
    /\ message # NullPtr
    /\ \E h \in PageIds \ {message.ptr} : message' = [message EXCEPT !.ptr = h]
    /\ UNCHANGED <<moduleVars, fileVars, heapVars, writeFailed, mode, pc,
                   localVars, hist>>

\* ---- specifications ----
\* the statements of caller p; its calls draw their inputs from B (buffers
\* to write) and N (transfer lengths to read)
Step(p, B, N) ==
    \/ parrot_open(p)
    \/ parrot_release(p)
    \/ \E n \in N : CallRead(p, n)
    \/ ReadAuth(p)
    \/ ReadLog(p)
    \/ ReadCopy(p)
    \/ \E b \in B : CallWrite(p, b)
    \/ WriteCheck(p)
    \/ WriteAuth(p)
    \/ WriteFree(p)
    \/ WriteAlloc(p)
    \/ WriteUnprotect(p)
    \/ WriteCopy(p)
    \/ WriteProtect(p)
    \/ WriteSign(p)
    \/ Return(p)

\* calls are serialized: one caller, one call at a time
Next ==
    \/ parrot_init
    \/ parrot_exit
    \/ Step(1, Payloads, 0..MaxLen)

Spec == Init /\ [][Next]_vars

\* callers are not serialized: statements of concurrent calls interleave
ConcPayloads == {b \in Payloads : Len(b) = 1}
ConcNext ==
    \/ parrot_init
    \/ parrot_exit
    \/ \E p \in Procs : Step(p, ConcPayloads, {1})

ConcSpec == Init /\ [][ConcNext]_vars

\* serialized calls, with the adversary
TamperNext ==
    \/ parrot_init
    \/ parrot_exit
    \/ Step(1, Payloads, 0..MaxLen)
    \/ Tamper

TamperSpec == Init /\ [][TamperNext]_vars

\* ---- properties ----
ReadPcs == {"r_auth", "r_log", "r_copy"}
WritePcs == {"w_check", "w_auth", "w_free", "w_alloc", "w_unprotect", "w_copy",
             "w_protect", "w_sign"}
\* a call of p has accessed the slot and has not returned
InBody(p) == pc[p] \in {"r_log", "r_copy", "r_ret", "w_auth", "w_free", "w_alloc",
                        "w_unprotect", "w_copy", "w_protect", "w_sign", "w_ret"}
\* the last completed call was a write that returned its len
LastWriteOk == hist.op = "write" /\ hist.ret = Len(hist.buffer)
LastReadOk == hist.op = "read" /\ hist.ret = 0
\* the length recorded in the page at h
RecordedSize(h) == mem[Base(h) + MessageLen]

\* C1: a read of the empty slot (no write since init) does not authenticate or
\* dereference the slot (it never gets past line 67) and returns an error.
C1_EmptyReadFails ==
    \A p \in Procs :
        message = NullPtr =>
            /\ pc[p] \notin {"r_log", "r_copy"}
            /\ (pc[p] = "r_ret" => IS_ERR(ret[p]))

\* C2: no statement of a write whose payload is longer than the page changes the
\* slot, the page contents or the set of allocated pages, and the write returns
\* an error.
C2_OversizeRejected ==
    [][\A p \in Procs :
          (pc[p] \in WritePcs /\ len[p] > PageSize) =>
              /\ UNCHANGED <<message, mem, wild, allocated>>
              /\ (pc'[p] = "w_ret" => IS_ERR(ret'[p]))]_vars

\* C3: a read that directly follows a successful write of a payload b that fits
\* the page hands back exactly b.
C3_WriteReadFidelity ==
    \A p \in Procs :
        (pc[p] = "r_ret" /\ ret[p] = 0 /\ LastWriteOk
            /\ Len(hist.buffer) <= PageSize)
        => out[p] = hist.buffer

\* C4: no page is ever freed a second time.
C4_FreedOnce == ~doubleFree

\* C5: while every write so far has succeeded and at least one was made,
\* exactly one page is allocated, the one the slot's pointer refers to.
C5_OneLivePage ==
    (phase = "loaded" /\ ~writeFailed /\ message # NullPtr
        /\ \A p \in Procs : pc[p] \notin WritePcs)
    => allocated = {message.ptr}

C5_Witness ==
    \E p \in Procs :
        /\ pc[p] = "w_ret" /\ ret[p] = len[p] /\ IsPage(addr[p])
        /\ ~writeFailed /\ phase = "loaded"
        /\ allocated = {message.ptr}

\* C6: once a successful write has replaced the page at addr, the pointer the
\* earlier write signed for that page no longer authenticates.
C6_OldCapabilityRevoked ==
    \A p \in Procs :
        (pc[p] = "w_ret" /\ ret[p] = len[p] /\ IsPage(addr[p]))
        => XmpAuthPtr(XmpSignPtr(addr[p], THIS_MODULE, parrot_pdomain),
                      THIS_MODULE, parrot_pdomain, pdomains) = BadPtr

\* C7: a successful read copies out as many bytes as the page records,
\* whatever length the caller passed.
C7_ReadCopiesRecordedLength ==
    \A p \in Procs :
        (pc[p] = "r_ret" /\ ret[p] = 0 /\ parrot_message[p] \in allocated)
        => Len(out[p]) = RecordedSize(parrot_message[p])

\* C8: no statement of a read changes the slot, the pages, the allocated set,
\* the owned pdomain or the protection mode; and a successful read that
\* directly follows a successful read of the same length hands back the same
\* bytes.
C8_ReadLeavesStore ==
    [][\A p \in Procs :
          /\ pc[p] \in ReadPcs => UNCHANGED storeVars
          /\ (pc[p] = "r_copy" /\ pc'[p] = "r_ret" /\ ret'[p] = 0
                 /\ LastReadOk /\ hist.len = len[p])
             => out'[p] = hist.out]_vars

C8_Witness ==
    \E p \in Procs :
        /\ pc[p] = "r_ret" /\ ret[p] = 0 /\ len[p] > 0
        /\ LastReadOk /\ hist.len = len[p] /\ out[p] = hist.out
        /\ parrot_message[p] \in allocated

\* C9: at most one call is between its first access to the slot and its return.
C9_MutualExclusion == Cardinality({p \in Procs : InBody(p)}) <= 1

\* C10: a write whose authentication of the slot failed goes no further: it
\* allocates nothing, stores nothing, and returns an error.
C10_AuthFailureStopsWrite ==
    \A p \in Procs :
        addr[p] = BadPtr =>
            /\ pc[p] \in {"w_free", "w_ret"}
            /\ (pc[p] = "w_ret" => IS_ERR(ret[p]))

\* C11: a write whose page allocation failed (get_zeroed_page handed back 0)
\* returns an error; it does not get past xmp_unprotect to the copy, the
\* protect or the signing.
C11_AllocFailureReturns ==
    \A p \in Procs :
        parrot_message[p] = NULL =>
            /\ pc[p] \notin {"w_copy", "w_protect", "w_sign"}
            /\ (pc[p] = "w_ret" => IS_ERR(ret[p]))

\* C12: module exit with an empty slot hands nothing to authenticate or to
\* free_pages, completes, and frees the owned pdomain.
C12_ExitEmptySlot ==
    (phase \in {"exited", "exit_oops"} /\ message = NullPtr) =>
        /\ hist.freed = NULL
        /\ phase = "exited"
        /\ parrot_pdomain \notin pdomains

\* C13: when the pdomain pool has no free id (xmp_alloc_pdomain hands back
\* XMP_MAX_PDOMAINS) init fails with an error, registers nothing and leaves the
\* slot empty; when the module is loaded it holds a pdomain id that the pool
\* counts as allocated.
C13_InitDomain ==
    /\ (phase # "unloaded" /\ parrot_pdomain = XMP_MAX_PDOMAINS) =>
          /\ phase = "init_failed"
          /\ hist.op = "init" /\ hist.failed = "pdomain" /\ IS_ERR(hist.ret)
          /\ registered = {}
          /\ message = NullPtr
          /\ pdomains = 0..(XMP_MAX_PDOMAINS - 1)
    /\ (hist.op = "init" /\ hist.failed = "pdomain") =>
          parrot_pdomain = XMP_MAX_PDOMAINS
    /\ phase = "loaded" =>
          /\ parrot_pdomain \in 0..(XMP_MAX_PDOMAINS - 1)
          /\ parrot_pdomain \in pdomains

C13_Witness ==
    /\ phase = "init_failed"
    /\ parrot_pdomain = XMP_MAX_PDOMAINS
    /\ hist.op = "init" /\ hist.failed = "pdomain"

\* C14: whenever no write is in progress and the slot is non-empty, the slot's
\* signed pointer authenticates, under this module's context and pdomain, to a
\* page that is currently allocated.
C14_SlotPageAllocated ==
    (/\ phase = "loaded"
     /\ \A p \in Procs : pc[p] \notin WritePcs \cup {"w_ret"}
     /\ message # NullPtr) =>
        XmpAuthPtr(message, THIS_MODULE, parrot_pdomain, pdomains) \in allocated

\* C15: with a single caller the protection mode is Protected whenever no write
\* stands between its xmp_unprotect and its xmp_protect.
C15_ProtectedOutsideWrite ==
    (\A p \in Procs : pc[p] \notin {"w_copy", "w_protect"}) => mode = Protected

\* C18: after module exit no page obtained by a write is still allocated and
\* the owned pdomain is back in the free pool.
C18_ExitFreesAll ==
    phase = "exited" => (allocated = {} /\ parrot_pdomain \notin pdomains)

\* C19: whenever init returns a failure, no pdomain remains allocated to the
\* module.
C19_FailedInitHoldsNoDomain ==
    phase = "init_failed" => parrot_pdomain \notin pdomains

\* C16: with concurrent writers the protection mode transitions alternate:
\* xmp_unprotect is not invoked while the mode is already Unprotected,
\* xmp_protect is not invoked while it is already Protected, and no writer
\* performs its copy into the page while the mode is Protected.
C16_StrictAlternation ==
    [][\A p \in Procs :
          /\ (pc[p] = "w_unprotect" /\ pc'[p] # "w_unprotect") => mode = Protected
          /\ (pc[p] = "w_protect" /\ pc'[p] # "w_protect") => mode # Protected
          /\ (pc[p] = "w_copy" /\ pc'[p] # "w_copy") => mode # Protected]_vars

\* C17: with concurrent callers the page a read obtained from xmp_auth_ptr is
\* still allocated at its log and copy-out steps, and no two writes are about
\* to hand the same page to free_pages.
C17_ReadPageStaysAllocated ==
    /\ \A p \in Procs :
          (pc[p] \in {"r_log", "r_copy"} /\ IsPage(parrot_message[p])) =>
              parrot_message[p] \in allocated
    /\ \A p, q \in Procs :
          (p # q /\ pc[p] = "w_free" /\ pc[q] = "w_free" /\ IsPage(addr[p])) =>
              addr[p] # addr[q]

\* C20: the (context, pdomain) pair that read, write and exit pass to
\* xmp_auth_ptr is the pair under which the stored pointer was signed, so the
\* authentication of an untampered slot yields the signed address; and no step
\* from a successful init on changes parrot_pdomain.
C20_SameContextAndDomain ==
    /\ [](message # NullPtr =>
            /\ message.tag = Tag(message.ptr, THIS_MODULE, parrot_pdomain)
            /\ \A p \in Procs :
                  /\ pc[p] \in {"r_log", "r_copy"} => parrot_message[p] = message.ptr
                  /\ pc[p] = "w_free" => addr[p] = message.ptr
            /\ hist.op = "exit" => hist.freed = message.ptr)
    /\ [][phase = "loaded" => parrot_pdomain' = parrot_pdomain]_vars

C20_Witness ==
    /\ message # NullPtr
    /\ \E p \in Procs : pc[p] = "r_log" /\ parrot_message[p] = message.ptr
    /\ hist.op = "write"

====
